---- MODULE Spec2Model ----
(***************************************************************************)
(* Circulation of book instances: the borrow / return / reserve / pickup   *)
(* / cancel handlers of app/main.py and app/routers/reservations.py, as a  *)
(* state machine over the three tables they read and write.                *)
(*                                                                         *)
(* A handler is one action.  Its response is a value of the request (the    *)
(* *_response operators), computed from the rows it reads; its guard is    *)
(* that no raise is taken before the commit.  A request that raises before *)
(* any commit changes no row: it is a stuttering step.                     *)
(*                                                                         *)
(* Rows carry the attributes the handlers read and write (Transaction      *)
(* .user_id, Reservation.pickup_code, Reservation.qr_code_url).  The       *)
(* mapped classes in app/db_models.py do not declare these three columns;  *)
(* the model follows the handlers.                                         *)
(***************************************************************************)
EXTENDS Integers, Sequences, FiniteSets, TLC

\* ------------------------------------------------------------------ bounds
MaxRes  == 2    \* reservation rows ever created
MaxTx   == 3    \* transaction rows ever created
MaxTime == 2    \* latest reading of the wall clock

ResIds  == 1 .. MaxRes
Times   == 1 .. MaxTime      \* clock readings after import
InstIds == {"i1", "i2"}
Tags    == {"t1", "t2", "t0"}   \* t0: a tag no instance carries
Users   == {"u1", "u2"}
Shelves == {"s1", "s2"}
Codes   == {"c1", "c2"}         \* values of the 6-digit pickup code
NoInst  == "i0"                 \* an id no instance row carries
NoRow   == [absent |-> TRUE]    \* session.get(...) returning None
NoUrl   == "null"               \* qr_code_url never set
Procs   == {"p1", "p2"}         \* workers serving requests side by side
NoReply == [rc |-> 0, detail |-> ""]   \* no /book-instances request yet
Unset   == "unset"              \* a field the request body leaves out
StartTime == 0                  \* column default datetime.now(UTC), taken once at import

\* ------------------------------------------------------------------ enums
AVAILABLE == "available"
BORROWED  == "borrowed"
RESERVED  == "reserved"
DAMAGED   == "damaged"

BORROW == "borrow"
RETURN == "return"

PENDING   == "pending"
COMPLETED == "completed"
EXPIRED   == "expired"

VARIABLES
    instances,     \* book_instance table: id -> [status, shelf_id, rfid_tag]
    reservations,  \* reservation table: id -> row, or NoRow
    nextRes,       \* number of reservation rows created so far
    transactions,  \* transaction table in insertion order
    now,           \* datetime.now(UTC)
    reqs,          \* the /borrow requests in flight, one session each
    isolation,     \* the isolation level the sessions run at
    reply          \* the response to the latest /book-instances request

vars == <<instances, reservations, nextRes, transactions, now, reqs, isolation, reply>>
db   == <<instances, reservations, nextRes, transactions>>

\* ------------------------------------------------------------------ queries
\* select(BookInstance).where(BookInstance.rfid_tag == rfid_tag)
InstanceByTag(rfid_tag) ==
    {i \in InstIds : instances[i].rfid_tag = rfid_tag}

\* select(Reservation).where(book_instance_id == id, status == PENDING, user_id == user_id)
PendingReservationOf(id, user_id) ==
    {r \in ResIds : /\ reservations[r] # NoRow
                    /\ reservations[r].book_instance_id = id
                    /\ reservations[r].status = PENDING
                    /\ reservations[r].user_id = user_id}

\* select(Transaction).where(book_instance_id == id, type == BORROW, status == PENDING)
PendingBorrows(id) ==
    {t \in 1 .. Len(transactions) : /\ transactions[t].book_instance_id = id
                                    /\ transactions[t].type = BORROW
                                    /\ transactions[t].status = PENDING}

\* select(Reservation).where(pickup_code == pickup_code, status == PENDING)
PendingByCode(pickup_code) ==
    {r \in ResIds : /\ reservations[r] # NoRow
                    /\ reservations[r].pickup_code = pickup_code
                    /\ reservations[r].status = PENDING}

\* ------------------------------------------------------------------ responses
\* raise HTTPException(rc, detail)
HTTPException(rc, detail) == [rc |-> rc, detail |-> detail]

\* scalar_one_or_none() on more than one row: an unhandled exception
MultipleResultsFound == [rc |-> 500, detail |-> "MultipleResultsFound"]

\* the handler returns its row
Ok(rc) == [rc |-> rc, detail |-> ""]

Raised(response) == response.rc \notin {200, 204}

\* ------------------------------------------------------------------ sessions
\* the levels the store offers; the engine's choice is made outside these files
IsolationLevels == {"READ COMMITTED", "SERIALIZABLE"}

\* a worker with no request
Idle == [pc |-> "idle"]

\* in-flight sessions whose snapshot of instance id a commit has just overwritten
Overwritten(id, by) ==
    [p \in Procs |->
        IF p # by /\ reqs[p].pc \in {"loaded", "checked"} /\ reqs[p].id = id
        THEN [reqs[p] EXCEPT !.stale = TRUE]
        ELSE reqs[p]]

Init ==
    /\ instances \in [InstIds -> [status : {AVAILABLE, DAMAGED}, shelf_id : {"s1"},
                                  rfid_tag : {"t1", "t2"}]]
    /\ instances["i1"].rfid_tag = "t1"
    /\ instances["i2"].rfid_tag = "t2"
    /\ reservations = [r \in ResIds |-> NoRow]
    /\ nextRes = 0
    /\ transactions = <<>>
    /\ now = 1
    /\ reqs = [p \in Procs |-> Idle]
    /\ isolation = "READ COMMITTED"
    /\ reply = NoReply

\* ------------------------------------------------------------------ POST /borrow
\* borrow_response with the reservation looked up without line 58 (user_id == user_id)
borrow_response_AnyUser(user_id, rfid_tag) ==
    LET found == InstanceByTag(rfid_tag) IN
    IF found = {}
    THEN HTTPException(404, "Book instance not found")
    ELSE
    LET id  == CHOOSE i \in found : TRUE
        st  == instances[id].status
        res == {r \in ResIds : /\ reservations[r] # NoRow
                               /\ reservations[r].book_instance_id = id
                               /\ reservations[r].status = PENDING}
    IN
    IF st \notin {AVAILABLE, RESERVED}
    THEN HTTPException(400, "Book is not available")
    ELSE IF st = RESERVED /\ res = {}
    THEN HTTPException(400, "Book is reserved by another user")
    ELSE Ok(200)

borrow_response(user_id, rfid_tag) ==
    LET found == InstanceByTag(rfid_tag) IN
    IF found = {}
    THEN HTTPException(404, "Book instance not found")
    ELSE
    LET id  == CHOOSE i \in found : TRUE
        st  == instances[id].status
        res == PendingReservationOf(id, user_id)
    IN
    IF st \notin {AVAILABLE, RESERVED}
    THEN HTTPException(400, "Book is not available")
    ELSE IF st = RESERVED /\ res = {}
    THEN HTTPException(400, "Book is reserved by another user")
    ELSE IF st = RESERVED /\ Cardinality(res) > 1
    THEN MultipleResultsFound
    ELSE Ok(200)

borrow_book(user_id, rfid_tag) ==
    LET id  == CHOOSE i \in InstanceByTag(rfid_tag) : TRUE
        res == PendingReservationOf(id, user_id)
    IN
        /\ ~Raised(borrow_response(user_id, rfid_tag))
        /\ Len(transactions) < MaxTx
        /\ reservations' =
              IF instances[id].status = RESERVED
              THEN [r \in ResIds |-> IF r \in res
                                     THEN [reservations[r] EXCEPT !.status = COMPLETED]
                                     ELSE reservations[r]]
              ELSE reservations
        /\ transactions' = Append(transactions,
              [user_id |-> user_id, shelf_id |-> instances[id].shelf_id,
               book_instance_id |-> id, type |-> BORROW, status |-> PENDING,
               date |-> StartTime])
        /\ instances' = [instances EXCEPT ![id].status = BORROWED]
        /\ UNCHANGED <<nextRes, now>>

\* ------------------------------------------------------------------ POST /return, /return-quick
\* return_response with a RESERVED instance turned away on its status first
return_response_TestsStatusFirst(rfid_tag) ==
    LET found == InstanceByTag(rfid_tag) IN
    IF found = {}
    THEN HTTPException(404, "Book instance not found")
    ELSE
    LET id      == CHOOSE i \in found : TRUE
        borrows == PendingBorrows(id)
    IN
    IF instances[id].status = RESERVED
    THEN HTTPException(400, "Book is not available")
    ELSE IF borrows = {}
    THEN HTTPException(400, "Book was not borrowed")
    ELSE IF Cardinality(borrows) > 1
    THEN MultipleResultsFound
    ELSE Ok(200)

\* the part the two handlers share: find the instance and its open borrow
return_response(rfid_tag) ==
    LET found == InstanceByTag(rfid_tag) IN
    IF found = {}
    THEN HTTPException(404, "Book instance not found")
    ELSE
    LET borrows == PendingBorrows(CHOOSE i \in found : TRUE) IN
    IF borrows = {}
    THEN HTTPException(400, "Book was not borrowed")
    ELSE IF Cardinality(borrows) > 1
    THEN MultipleResultsFound
    ELSE Ok(200)

\* return_book without line 116 (instance.status = AVAILABLE)
return_book_LeavesBorrowed(rfid_tag, shelf_id) ==
    LET id          == CHOOSE i \in InstanceByTag(rfid_tag) : TRUE
        last_borrow == CHOOSE t \in PendingBorrows(id) : TRUE
    IN
        /\ ~Raised(return_response(rfid_tag))
        /\ Len(transactions) < MaxTx
        /\ transactions' = Append(
              [transactions EXCEPT ![last_borrow].status = COMPLETED],
              [user_id |-> transactions[last_borrow].user_id, shelf_id |-> shelf_id,
               book_instance_id |-> id, type |-> RETURN, status |-> COMPLETED,
               date |-> StartTime])
        /\ instances' = [instances EXCEPT ![id].shelf_id = shelf_id]
        /\ UNCHANGED <<reservations, nextRes, now>>

\* return_book without line 117 (instance.shelf_id = shelf_id)
return_book_KeepsShelf(rfid_tag, shelf_id) ==
    LET id          == CHOOSE i \in InstanceByTag(rfid_tag) : TRUE
        last_borrow == CHOOSE t \in PendingBorrows(id) : TRUE
    IN
        /\ ~Raised(return_response(rfid_tag))
        /\ Len(transactions) < MaxTx
        /\ transactions' = Append(
              [transactions EXCEPT ![last_borrow].status = COMPLETED],
              [user_id |-> transactions[last_borrow].user_id, shelf_id |-> shelf_id,
               book_instance_id |-> id, type |-> RETURN, status |-> COMPLETED,
               date |-> StartTime])
        /\ instances' = [instances EXCEPT ![id].status = AVAILABLE]
        /\ UNCHANGED <<reservations, nextRes, now>>

return_book(rfid_tag, shelf_id) ==
    LET id          == CHOOSE i \in InstanceByTag(rfid_tag) : TRUE
        last_borrow == CHOOSE t \in PendingBorrows(id) : TRUE
    IN
        /\ ~Raised(return_response(rfid_tag))
        /\ Len(transactions) < MaxTx
        /\ transactions' = Append(
              [transactions EXCEPT ![last_borrow].status = COMPLETED],
              [user_id |-> transactions[last_borrow].user_id, shelf_id |-> shelf_id,
               book_instance_id |-> id, type |-> RETURN, status |-> COMPLETED,
               date |-> StartTime])
        /\ instances' = [instances EXCEPT ![id].status = AVAILABLE,
                                          ![id].shelf_id = shelf_id]
        /\ UNCHANGED <<reservations, nextRes, now>>

\* return_book_quick with session.delete(last_borrow) for line 149
return_book_quick_DeletesBorrow(rfid_tag) ==
    LET id          == CHOOSE i \in InstanceByTag(rfid_tag) : TRUE
        last_borrow == CHOOSE t \in PendingBorrows(id) : TRUE
    IN
        /\ ~Raised(return_response(rfid_tag))
        /\ Len(transactions) < MaxTx
        /\ transactions' = Append(
              SubSeq(transactions, 1, last_borrow - 1)
                  \o SubSeq(transactions, last_borrow + 1, Len(transactions)),
              [user_id |-> transactions[last_borrow].user_id,
               shelf_id |-> instances[id].shelf_id,
               book_instance_id |-> id, type |-> RETURN, status |-> COMPLETED,
               date |-> StartTime])
        /\ instances' = [instances EXCEPT ![id].status = AVAILABLE]
        /\ UNCHANGED <<reservations, nextRes, now>>

\* return_book_quick without line 149 (last_borrow.status = COMPLETED)
return_book_quick_KeepsBorrowOpen(rfid_tag) ==
    LET id == CHOOSE i \in InstanceByTag(rfid_tag) : TRUE
    IN
        /\ ~Raised(return_response(rfid_tag))
        /\ Len(transactions) < MaxTx
        /\ transactions' = Append(transactions,
              [user_id |-> transactions[CHOOSE t \in PendingBorrows(id) : TRUE].user_id,
               shelf_id |-> instances[id].shelf_id,
               book_instance_id |-> id, type |-> RETURN, status |-> COMPLETED,
               date |-> StartTime])
        /\ instances' = [instances EXCEPT ![id].status = AVAILABLE]
        /\ UNCHANGED <<reservations, nextRes, now>>

return_book_quick(rfid_tag) ==
    LET id          == CHOOSE i \in InstanceByTag(rfid_tag) : TRUE
        last_borrow == CHOOSE t \in PendingBorrows(id) : TRUE
    IN
        /\ ~Raised(return_response(rfid_tag))
        /\ Len(transactions) < MaxTx
        /\ transactions' = Append(
              [transactions EXCEPT ![last_borrow].status = COMPLETED],
              [user_id |-> transactions[last_borrow].user_id,
               shelf_id |-> instances[id].shelf_id,
               book_instance_id |-> id, type |-> RETURN, status |-> COMPLETED,
               date |-> StartTime])
        /\ instances' = [instances EXCEPT ![id].status = AVAILABLE]
        /\ UNCHANGED <<reservations, nextRes, now>>

\* ------------------------------------------------------------------ POST /reservations
\* create_reservation_response with line 64 testing for BORROWED only
create_reservation_response_AllowsReserved(book_instance_id) ==
    IF book_instance_id \notin InstIds
    THEN HTTPException(404, "Book instance not found")
    ELSE IF instances[book_instance_id].status \in {BORROWED, DAMAGED}
    THEN HTTPException(400, "Book instance not available")
    ELSE Ok(200)

create_reservation_response(book_instance_id) ==
    IF book_instance_id \notin InstIds
    THEN HTTPException(404, "Book instance not found")
    ELSE IF instances[book_instance_id].status # AVAILABLE
    THEN HTTPException(400, "Book instance not available")
    ELSE Ok(200)

\* create_reservation with the except branch (lines 88-89) undoing the reservation
\* of the instance
create_reservation_QrFailureFreesInstance(user_id, book_instance_id, exp_date, pickup_code, qr_ok) ==
        /\ ~Raised(create_reservation_response(book_instance_id))
        /\ nextRes < MaxRes
        /\ nextRes' = nextRes + 1
        /\ reservations' = [reservations EXCEPT ![nextRes + 1] =
              [user_id |-> user_id, book_instance_id |-> book_instance_id,
               exp_date |-> exp_date, status |-> PENDING, pickup_code |-> pickup_code,
               qr_code_url |-> IF qr_ok THEN "url" ELSE NoUrl]]
        /\ instances' = IF qr_ok
                        THEN [instances EXCEPT ![book_instance_id].status = RESERVED]
                        ELSE instances
        /\ UNCHANGED <<transactions, now>>

\* pickup_code is the value secrets.choice draws; qr_ok is whether
\* generate_and_upload_qr returns or raises.
create_reservation(user_id, book_instance_id, exp_date, pickup_code, qr_ok) ==
        /\ ~Raised(create_reservation_response(book_instance_id))
        /\ nextRes < MaxRes
        /\ nextRes' = nextRes + 1
        /\ reservations' = [reservations EXCEPT ![nextRes + 1] =
              [user_id |-> user_id, book_instance_id |-> book_instance_id,
               exp_date |-> exp_date, status |-> PENDING, pickup_code |-> pickup_code,
               qr_code_url |-> IF qr_ok THEN "url" ELSE NoUrl]]
        /\ instances' = [instances EXCEPT ![book_instance_id].status = RESERVED]
        /\ UNCHANGED <<transactions, now>>

\* ------------------------------------------------------------------ DELETE /reservations/{id}
delete_reservation_response(reservation_id) ==
    IF reservations[reservation_id] = NoRow
    THEN HTTPException(404, "Reservation not found")
    ELSE Ok(204)

\* delete_reservation without lines 122-125 (the revert to AVAILABLE)
delete_reservation_NoRevert(reservation_id) ==
    /\ ~Raised(delete_reservation_response(reservation_id))
    /\ reservations' = [reservations EXCEPT ![reservation_id] = NoRow]
    /\ UNCHANGED <<instances, nextRes, transactions, now>>

delete_reservation(reservation_id) ==
    LET reservation == reservations[reservation_id]
        id          == reservation.book_instance_id
    IN
        /\ ~Raised(delete_reservation_response(reservation_id))
        /\ instances' =
              IF /\ reservation.status = PENDING
                 /\ id \in InstIds
                 /\ instances[id].status = RESERVED
              THEN [instances EXCEPT ![id].status = AVAILABLE]
              ELSE instances
        /\ reservations' = [reservations EXCEPT ![reservation_id] = NoRow]
        /\ UNCHANGED <<nextRes, transactions, now>>

\* ------------------------------------------------------------------ POST /reservations/pickup
\* the response when .scalars().first() hands back row r
pickup_response(pickup_code, r) ==
    IF r \notin PendingByCode(pickup_code)
    THEN HTTPException(404, "Invalid or expired pickup code")
    ELSE IF reservations[r].exp_date < now
    THEN HTTPException(400, "Reservation expired")
    ELSE IF reservations[r].book_instance_id \notin InstIds
    THEN HTTPException(404, "Book instance not found")
    ELSE Ok(200)

\* pickup_row with the transaction added and committed before the expiry test
pickup_row_AddsBeforeExpiryTest(pickup_code, r) ==
    LET reservation == reservations[r]
        id          == reservation.book_instance_id
        response    == pickup_response(pickup_code, r)
    IN
        /\ response.detail \in {"Reservation expired", ""}
        /\ Len(transactions) < MaxTx
        /\ transactions' = Append(transactions,
              [user_id |-> reservation.user_id, shelf_id |-> instances[id].shelf_id,
               book_instance_id |-> id, type |-> BORROW, status |-> PENDING,
               date |-> now])
        /\ reservations' = [reservations EXCEPT ![r].status =
                                IF Raised(response) THEN EXPIRED ELSE COMPLETED]
        /\ instances' = IF Raised(response) THEN instances
                        ELSE [instances EXCEPT ![id].status = BORROWED]
        /\ UNCHANGED <<nextRes, now>>

\* the handler from the row the query returned
pickup_row(pickup_code, r) ==
    LET reservation == reservations[r]
        id          == reservation.book_instance_id
        response    == pickup_response(pickup_code, r)
    IN
    IF response.detail = "Reservation expired"
    THEN
        /\ reservations' = [reservations EXCEPT ![r].status = EXPIRED]
        /\ UNCHANGED <<instances, nextRes, transactions, now>>
    ELSE
        /\ ~Raised(response)
        /\ Len(transactions) < MaxTx
        /\ transactions' = Append(transactions,
              [user_id |-> reservation.user_id, shelf_id |-> instances[id].shelf_id,
               book_instance_id |-> id, type |-> BORROW, status |-> PENDING,
               date |-> now])
        /\ reservations' = [reservations EXCEPT ![r].status = COMPLETED]
        /\ instances' = [instances EXCEPT ![id].status = BORROWED]
        /\ UNCHANGED <<nextRes, now>>

\* .scalars().first() of an unordered select: any of the matching rows
pickup_reservation(pickup_code) ==
    \E r \in PendingByCode(pickup_code) : pickup_row(pickup_code, r)

\* ------------------------------------------------------------------ environment
\* time passes between requests
Tick ==
    /\ now < MaxTime
    /\ now' = now + 1
    /\ UNCHANGED db

\* one request at a time: the handler runs from its first query to its commit
Serial(handler) == handler /\ UNCHANGED <<reqs, isolation, reply>>

Next ==
    \/ \E u \in Users, tag \in Tags : Serial(borrow_book(u, tag))
    \/ \E tag \in Tags, s \in Shelves : Serial(return_book(tag, s))
    \/ \E tag \in Tags : Serial(return_book_quick(tag))
    \/ \E u \in Users, i \in InstIds \cup {NoInst}, e \in Times, c \in Codes, ok \in BOOLEAN :
          Serial(create_reservation(u, i, e, c, ok))
    \/ \E r \in ResIds : Serial(delete_reservation(r))
    \/ \E c \in Codes : Serial(pickup_reservation(c))
    \/ Serial(Tick)

Spec == Init /\ [][Next]_vars

\* ------------------------------------------------------------------ POST /borrow, step by step
\* Two workers run borrow_book side by side, each in its own session.  The
\* steps are the handler's round trips to the store: the select of the
\* instance (lines 43-48), the status test with the select of the reservation
\* (lines 50-63), and the commit (lines 65-76).

\* lines 43-48
BorrowLoad(p, user_id, rfid_tag) ==
    LET found == InstanceByTag(rfid_tag) IN
        /\ reqs[p].pc = "idle"
        /\ reqs' = [reqs EXCEPT ![p] =
              IF found = {}
              THEN [pc |-> "done", user_id |-> user_id, id |-> NoInst,
                    response |-> HTTPException(404, "Book instance not found")]
              ELSE LET id == CHOOSE i \in found : TRUE IN
                   [pc |-> "loaded", user_id |-> user_id, id |-> id,
                    status |-> instances[id].status,
                    shelf_id |-> instances[id].shelf_id,
                    seen |-> PendingReservationOf(id, user_id),
                    stale |-> FALSE]]
        /\ UNCHANGED <<db, now, isolation, reply>>

\* lines 50-63, on the instance as loaded; the reservation is read as committed
\* now under READ COMMITTED, as of the session's first query under SERIALIZABLE
BorrowCheck(p) ==
    LET req == reqs[p]
        res == IF isolation = "READ COMMITTED"
               THEN PendingReservationOf(req.id, req.user_id)
               ELSE req.seen
        response ==
            IF req.status \notin {AVAILABLE, RESERVED}
            THEN HTTPException(400, "Book is not available")
            ELSE IF req.status = RESERVED /\ res = {}
            THEN HTTPException(400, "Book is reserved by another user")
            ELSE IF req.status = RESERVED /\ Cardinality(res) > 1
            THEN MultipleResultsFound
            ELSE Ok(200)
    IN
        /\ req.pc = "loaded"
        /\ reqs' = [reqs EXCEPT ![p] =
              IF Raised(response)
              THEN [pc |-> "done", user_id |-> req.user_id, id |-> req.id,
                    response |-> response]
              ELSE [req EXCEPT !.pc = "checked",
                               !.seen = IF req.status = RESERVED THEN res ELSE {}]]
        /\ UNCHANGED <<db, now, isolation, reply>>

\* lines 65-76: the flush writes the reservation and the instance by primary
\* key and inserts the transaction.  Under READ COMMITTED the writes go through
\* whatever was committed since the load; under SERIALIZABLE a row overwritten
\* since the session's snapshot aborts the session.
BorrowCommit(p) ==
    LET req == reqs[p] IN
        /\ req.pc = "checked"
        /\ IF isolation = "SERIALIZABLE" /\ req.stale
           THEN /\ reqs' = [reqs EXCEPT ![p] =
                      [pc |-> "done", user_id |-> req.user_id, id |-> req.id,
                       response |-> [rc |-> 500, detail |-> "SerializationFailure"]]]
                /\ UNCHANGED <<db, now, isolation, reply>>
           ELSE /\ Len(transactions) < MaxTx
                /\ reservations' =
                      [r \in ResIds |-> IF r \in req.seen /\ reservations[r] # NoRow
                                        THEN [reservations[r] EXCEPT !.status = COMPLETED]
                                        ELSE reservations[r]]
                /\ transactions' = Append(transactions,
                      [user_id |-> req.user_id, shelf_id |-> req.shelf_id,
                       book_instance_id |-> req.id, type |-> BORROW, status |-> PENDING,
                       date |-> StartTime])
                /\ instances' = [instances EXCEPT ![req.id].status = BORROWED]
                /\ reqs' = [Overwritten(req.id, p) EXCEPT ![p] =
                      [pc |-> "done", user_id |-> req.user_id, id |-> req.id,
                       loaded |-> req.status, response |-> Ok(200)]]
                /\ UNCHANGED <<nextRes, now, isolation, reply>>

\* a whole handler committing on instance id while /borrow sessions are in flight
Concurrent(handler, id) ==
    /\ handler
    /\ reqs' = Overwritten(id, "none")
    /\ UNCHANGED <<isolation, reply>>

InitConc ==
    /\ instances = [i \in InstIds |->
                       [status |-> AVAILABLE, shelf_id |-> "s1",
                        rfid_tag |-> IF i = "i1" THEN "t1" ELSE "t2"]]
    /\ reservations = [r \in ResIds |-> NoRow]
    /\ nextRes = 0
    /\ transactions = <<>>
    /\ now = 1
    /\ reqs = [p \in Procs |-> Idle]
    /\ isolation \in IsolationLevels
    /\ reply = NoReply

NextConc ==
    \/ \E p \in Procs, u \in Users, tag \in {"t1", "t0"} : BorrowLoad(p, u, tag)
    \/ \E p \in Procs : BorrowCheck(p)
    \/ \E p \in Procs : BorrowCommit(p)
    \/ \E u \in Users : Concurrent(create_reservation(u, "i1", MaxTime, "c1", TRUE), "i1")
    \/ Concurrent(return_book_quick("t1"), "i1")

SpecConc == InitConc /\ [][NextConc]_vars

\* ------------------------------------------------------------------ /book-instances
\* The registry of instances: POST and PUT /book-instances of
\* app/routers/books.py.  These handlers answer every request, so the response
\* is kept in reply; a request that raises leaves the tables as they are.

\* an attribute neither the mapped class nor the request schema declares
AttributeError == [rc |-> 500, detail |-> "AttributeError: book_code"]

\* the commit refused by the unique constraint on book_instance.rfid_tag
IntegrityError == [rc |-> 500, detail |-> "IntegrityError: rfid_tag"]

\* bodies of BookInstanceCreate
InstanceData ==
    [status : {AVAILABLE, BORROWED, RESERVED, DAMAGED}, rfid_tag : Tags, shelf_id : Shelves]

\* bodies of BookInstanceUpdate, model_dump(exclude_unset=True)
UpdateData ==
    [status   : {AVAILABLE, BORROWED, RESERVED, DAMAGED, Unset},
     rfid_tag : Tags \cup {Unset},
     shelf_id : Shelves \cup {Unset}]

\* lines 125-138: BookInstance.book_code is evaluated once the book and the
\* shelf are found; the duplicate test after it is never reached
create_book_instance_response(instance_data, book_found, shelf_found) ==
    IF ~book_found
    THEN HTTPException(404, "Book not found")
    ELSE IF ~shelf_found
    THEN HTTPException(404, "Shelf not found")
    ELSE AttributeError

create_book_instance(instance_data, book_found, shelf_found) ==
    /\ reply' = create_book_instance_response(instance_data, book_found, shelf_found)
    /\ UNCHANGED <<db, now, reqs, isolation>>

\* lines 175-195: "book_code" is no key of update_data, so the duplicate test
\* is skipped; the fields are set and the commit checks the constraint
update_book_instance_response(instance_id, update_data) ==
    IF instance_id \notin InstIds
    THEN HTTPException(404, "Book instance not found")
    ELSE IF /\ update_data.rfid_tag # Unset
            /\ \E j \in InstIds \ {instance_id} : instances[j].rfid_tag = update_data.rfid_tag
    THEN IntegrityError
    ELSE Ok(200)

update_book_instance(instance_id, update_data) ==
    LET response == update_book_instance_response(instance_id, update_data)
        instance == instances[instance_id]
    IN
        /\ reply' = response
        /\ instances' =
              IF Raised(response) THEN instances
              ELSE [instances EXCEPT ![instance_id] =
                      [status   |-> IF update_data.status = Unset
                                    THEN instance.status ELSE update_data.status,
                       rfid_tag |-> IF update_data.rfid_tag = Unset
                                    THEN instance.rfid_tag ELSE update_data.rfid_tag,
                       shelf_id |-> IF update_data.shelf_id = Unset
                                    THEN instance.shelf_id ELSE update_data.shelf_id]]
        /\ UNCHANGED <<reservations, nextRes, transactions, now, reqs, isolation>>

InitRegistry ==
    /\ instances = [i \in InstIds |->
                       [status |-> AVAILABLE, shelf_id |-> "s1",
                        rfid_tag |-> IF i = "i1" THEN "t1" ELSE "t2"]]
    /\ reservations = [r \in ResIds |-> NoRow]
    /\ nextRes = 0
    /\ transactions = <<>>
    /\ now = 1
    /\ reqs = [p \in Procs |-> Idle]
    /\ isolation = "READ COMMITTED"
    /\ reply = NoReply

NextRegistry ==
    \/ \E instance_data \in InstanceData, book_found \in BOOLEAN, shelf_found \in BOOLEAN :
          create_book_instance(instance_data, book_found, shelf_found)
    \/ \E instance_id \in InstIds \cup {NoInst}, update_data \in UpdateData :
          update_book_instance(instance_id, update_data)

SpecRegistry == InitRegistry /\ [][NextRegistry]_vars

\* ------------------------------------------------------------------ derived views
\* the instance a tag resolves to (the tag column is unique)
TagOf(i) == instances[i].rfid_tag

\* reservation rows in status PENDING that reference instance i
PendingReservationsOn(i) ==
    {r \in ResIds : /\ reservations[r] # NoRow
                    /\ reservations[r].book_instance_id = i
                    /\ reservations[r].status = PENDING}

\* the ledger of instance i as <<type, status>> pairs, oldest first
RECURSIVE LedgerFrom(_, _)
LedgerFrom(i, t) ==
    IF t > Len(transactions) THEN <<>>
    ELSE IF transactions[t].book_instance_id = i
         THEN <<(<<transactions[t].type, transactions[t].status>>)>> \o LedgerFrom(i, t + 1)
         ELSE LedgerFrom(i, t + 1)

Ledger(i) == LedgerFrom(i, 1)

\* ================================================================== claims

\* C1: in every reachable state an instance is RESERVED if and only if exactly
\* one PENDING reservation references it.
C1_ReservedIffOnePending ==
    \A i \in InstIds :
        instances[i].status = RESERVED <=> Cardinality(PendingReservationsOn(i)) = 1

\* C2: in every reachable state an instance is BORROWED if and only if exactly
\* one BORROW transaction in status PENDING references it.
C2_BorrowedIffOnePendingBorrow ==
    \A i \in InstIds :
        instances[i].status = BORROWED <=> Cardinality(PendingBorrows(i)) = 1

\* C2 witness: an instance that was borrowed, returned and is borrowed again
\* through a pickup, with its one open borrow.
C2_Witness ==
    \E i \in InstIds :
        /\ instances[i].status = BORROWED
        /\ Cardinality(PendingBorrows(i)) = 1
        /\ \E t \in 1 .. Len(transactions) :
               transactions[t].book_instance_id = i /\ transactions[t].type = RETURN
        /\ \E r \in ResIds :
               /\ reservations[r] # NoRow
               /\ reservations[r].book_instance_id = i
               /\ reservations[r].status = COMPLETED

\* C3: two Borrow requests served side by side for the same instance, both
\* having loaded it AVAILABLE, never both succeed: at most one of them is
\* answered with a BORROW transaction.
C3_AtMostOneBorrow ==
    \A p \in Procs, q \in Procs :
        (/\ p # q
         /\ reqs[p].pc = "done" /\ reqs[q].pc = "done"
         /\ reqs[p].id = reqs[q].id
         /\ reqs[p].response = Ok(200) /\ reqs[p].loaded = AVAILABLE
         /\ reqs[q].response.rc = 200)
        => reqs[q].loaded # AVAILABLE

\* C4: a request answered with an error changes no table, with one exception:
\* PickupByCode answering "Reservation expired" changes the status of that
\* reservation to EXPIRED and nothing else.  Put on the handlers' steps: no
\* step of a handler both changes a table and is answered with an error, but
\* for that one pickup.
C4_Step ==
    /\ \A u \in Users, tag \in Tags :
          (Raised(borrow_response(u, tag)) /\ db' # db) => ~borrow_book(u, tag)
    /\ \A tag \in Tags :
          (Raised(return_response(tag)) /\ db' # db) =>
              /\ ~return_book_quick(tag)
              /\ \A s \in Shelves : ~return_book(tag, s)
    /\ \A i \in InstIds \cup {NoInst} :
          (Raised(create_reservation_response(i)) /\ db' # db) =>
              \A u \in Users, e \in Times, c \in Codes, ok \in BOOLEAN :
                  ~create_reservation(u, i, e, c, ok)
    /\ \A r \in ResIds :
          (Raised(delete_reservation_response(r)) /\ db' # db) => ~delete_reservation(r)
    /\ \A c \in Codes, r \in ResIds :
          (Raised(pickup_response(c, r)) /\ db' # db /\ pickup_row(c, r)) =>
              /\ pickup_response(c, r) = HTTPException(400, "Reservation expired")
              /\ reservations' = [reservations EXCEPT ![r].status = EXPIRED]
              /\ UNCHANGED <<instances, nextRes, transactions>>

C4_ErrorsPersistNothing == [][C4_Step]_vars

\* C4 witness: a pickup was answered "Reservation expired" (the row is EXPIRED),
\* and in the state it left Borrow, Return, Reserve and Cancel requests raise.
C4_Witness ==
    \E r \in ResIds, i \in InstIds, u \in Users :
        /\ reservations[r] # NoRow
        /\ reservations[r].status = EXPIRED
        /\ reservations[r].book_instance_id = i
        /\ transactions = <<>>
        /\ borrow_response(u, TagOf(i)).rc = 400
        /\ return_response(TagOf(i)).rc = 400
        /\ create_reservation_response(i).rc = 400
        /\ \E q \in ResIds : delete_reservation_response(q).rc = 404

\* C5: from an AVAILABLE instance X, Reserve(X, U, exp not yet passed) leaves R
\* PENDING and X RESERVED; then PickupByCode(R.pickup_code) adds a BORROW
\* transaction T, leaves R COMPLETED and X BORROWED; then Return(X.tag) adds a
\* RETURN transaction in status COMPLETED, leaves T COMPLETED and X AVAILABLE.
\* Each step is stated from the state the step before it leaves.
C5_Step ==
    /\ \A X \in InstIds, U \in Users, e \in Times, c \in Codes, ok \in BOOLEAN :
          (/\ instances[X].status = AVAILABLE
           /\ e >= now
           /\ create_reservation(U, X, e, c, ok))
          => /\ reservations'[nextRes'].status = PENDING
             /\ reservations'[nextRes'].book_instance_id = X
             /\ reservations'[nextRes'].exp_date >= now
             /\ instances'[X].status = RESERVED
    /\ \A R \in ResIds :
          (/\ reservations[R] # NoRow
           /\ reservations[R].status = PENDING
           /\ reservations[R].exp_date >= now
           /\ instances[reservations[R].book_instance_id].status = RESERVED
           /\ pickup_reservation(reservations[R].pickup_code))
          => /\ reservations'[R].status = COMPLETED
             /\ instances'[reservations[R].book_instance_id].status = BORROWED
             /\ Len(transactions') = Len(transactions) + 1
             /\ transactions'[Len(transactions')].type = BORROW
             /\ transactions'[Len(transactions')].book_instance_id =
                    reservations[R].book_instance_id
    /\ \A X \in InstIds, T \in 1 .. Len(transactions), s \in Shelves :
          (/\ instances[X].status = BORROWED
           /\ T \in PendingBorrows(X)
           /\ (return_book(TagOf(X), s) \/ return_book_quick(TagOf(X))))
          => /\ Len(transactions') = Len(transactions) + 1
             /\ transactions'[Len(transactions')].type = RETURN
             /\ transactions'[Len(transactions')].status = COMPLETED
             /\ transactions'[Len(transactions')].book_instance_id = X
             /\ transactions'[T].status = COMPLETED
             /\ instances'[X].status = AVAILABLE

C5_ReservePickupReturn == [][C5_Step]_vars

\* C6: on an AVAILABLE instance with an empty ledger, Borrow, Return, Borrow
\* are each accepted, and leave the instance's ledger with exactly two BORROW
\* transactions and one RETURN transaction in status COMPLETED.  Each step is
\* stated from the state the step before it leaves.
LedgerBorrowed == <<(<<BORROW, PENDING>>)>>
LedgerReturned == <<(<<BORROW, COMPLETED>>), (<<RETURN, COMPLETED>>)>>
LedgerBorrowedAgain ==
    <<(<<BORROW, COMPLETED>>), (<<RETURN, COMPLETED>>), (<<BORROW, PENDING>>)>>

C6_State ==
    \A i \in InstIds :
        LET ledger == Ledger(i) IN
            /\ (instances[i].status = AVAILABLE /\ ledger \in {<<>>, LedgerReturned})
                   => \A u \in Users : borrow_response(u, TagOf(i)) = Ok(200)
            /\ (instances[i].status = BORROWED /\ ledger = LedgerBorrowed)
                   => return_response(TagOf(i)) = Ok(200)

C6_Step ==
    \A i \in InstIds :
        LET ledger == Ledger(i) IN
            /\ (instances[i].status = AVAILABLE /\ ledger = <<>>)
               => \A u \in Users :
                      borrow_book(u, TagOf(i))
                      => (instances'[i].status = BORROWED /\ Ledger(i)' = LedgerBorrowed)
            /\ (instances[i].status = BORROWED /\ ledger = LedgerBorrowed)
               => \A s \in Shelves :
                      (return_book(TagOf(i), s) \/ return_book_quick(TagOf(i)))
                      => (instances'[i].status = AVAILABLE /\ Ledger(i)' = LedgerReturned)
            /\ (instances[i].status = AVAILABLE /\ ledger = LedgerReturned)
               => \A u \in Users :
                      borrow_book(u, TagOf(i))
                      => (instances'[i].status = BORROWED
                          /\ Ledger(i)' = LedgerBorrowedAgain)

C6_BorrowReturnBorrow == C6_State /\ [][C6_State' /\ C6_Step]_vars

\* C6 witness: an instance never reserved, borrowed again after its return.
C6_Witness ==
    \E i \in InstIds :
        /\ nextRes = 0
        /\ instances[i].status = BORROWED
        /\ Ledger(i) = LedgerBorrowedAgain
        /\ Cardinality({t \in 1 .. Len(transactions) :
               transactions[t].book_instance_id = i /\ transactions[t].type = BORROW}) = 2
        /\ Cardinality({t \in 1 .. Len(transactions) :
               /\ transactions[t].book_instance_id = i
               /\ transactions[t].type = RETURN
               /\ transactions[t].status = COMPLETED}) = 1

\* C7: Borrow of a RESERVED instance by a user with no PENDING reservation on it
\* is refused as "reserved by another user" (the Forbidden kind); Borrow by the
\* user holding its PENDING reservation is accepted and marks that reservation
\* COMPLETED.
C7_State ==
    \A i \in InstIds, u \in Users :
        instances[i].status = RESERVED =>
            IF PendingReservationOf(i, u) = {}
            THEN borrow_response(u, TagOf(i)) =
                     HTTPException(400, "Book is reserved by another user")
            ELSE borrow_response(u, TagOf(i)) = Ok(200)

C7_Step ==
    \A i \in InstIds, u \in Users, r \in ResIds :
        (/\ instances[i].status = RESERVED
         /\ r \in PendingReservationOf(i, u)
         /\ borrow_book(u, TagOf(i)))
        => /\ reservations'[r].status = COMPLETED
           /\ instances'[i].status = BORROWED
           /\ Len(transactions') = Len(transactions) + 1
           /\ transactions'[Len(transactions')].type = BORROW
           /\ transactions'[Len(transactions')].user_id = u
           /\ transactions'[Len(transactions')].book_instance_id = i

C7_ReservedBorrow == C7_State /\ [][C7_State' /\ C7_Step]_vars

\* C7 witness: an instance borrowed by the holder of its reservation, while the
\* other instance is reserved and a Borrow by the other user is refused.
C7_Witness ==
    \E i \in InstIds, j \in InstIds, u \in Users, r \in ResIds :
        /\ reservations[r] # NoRow
        /\ reservations[r].status = COMPLETED
        /\ reservations[r].book_instance_id = i
        /\ instances[i].status = BORROWED
        /\ \E t \in 1 .. Len(transactions) :
               /\ transactions[t].book_instance_id = i
               /\ transactions[t].date = StartTime
               /\ transactions[t].status = PENDING
        /\ instances[j].status = RESERVED
        /\ PendingReservationOf(j, u) = {}
        /\ borrow_response(u, TagOf(j)).detail = "Book is reserved by another user"

\* C8: PickupByCode that finds a PENDING reservation past its exp_date answers
\* "Reservation expired", leaves it EXPIRED and adds no transaction; a second
\* PickupByCode with the same code is then answered 404, whichever row it asks
\* for.
C8_Step ==
    \A c \in Codes, r \in ResIds :
        (/\ r \in PendingByCode(c)
         /\ reservations[r].exp_date < now
         /\ pickup_row(c, r))
        => /\ pickup_response(c, r) = HTTPException(400, "Reservation expired")
           /\ reservations'[r].status = EXPIRED
           /\ transactions' = transactions
           /\ \A q \in ResIds :
                 pickup_response(c, q)' =
                     HTTPException(404, "Invalid or expired pickup code")

C8_ExpiredPickup == [][C8_Step]_vars

\* C9: CancelReservation removes the row; when the row was PENDING its instance
\* becomes AVAILABLE, otherwise no instance changes.
C9_Step ==
    \A r \in ResIds :
        (reservations[r] # NoRow /\ delete_reservation(r))
        => /\ reservations' = [reservations EXCEPT ![r] = NoRow]
           /\ IF reservations[r].status = PENDING
              THEN instances' = [instances EXCEPT
                       ![reservations[r].book_instance_id].status = AVAILABLE]
              ELSE instances' = instances

C9_Cancel == [][C9_Step]_vars

\* C9 witness: both reservations were cancelled; the one cancelled after it had
\* EXPIRED left its instance RESERVED, the other instance is AVAILABLE again.
C9_Witness ==
    \E i \in InstIds, j \in InstIds :
        /\ nextRes = 2
        /\ \A r \in 1 .. 2 : reservations[r] = NoRow
        /\ transactions = <<>>
        /\ instances[i].status = RESERVED
        /\ instances[j].status = AVAILABLE

\* C10: Reserve on an instance that is not AVAILABLE is answered "Book instance
\* not available" and adds no reservation; Reserve on an AVAILABLE instance adds
\* exactly one reservation, PENDING, and sets the instance RESERVED in the same
\* step.
C10_State ==
    \A i \in InstIds :
        create_reservation_response(i) =
            IF instances[i].status = AVAILABLE
            THEN Ok(200)
            ELSE HTTPException(400, "Book instance not available")

C10_Step ==
    \A u \in Users, i \in InstIds, e \in Times, c \in Codes, ok \in BOOLEAN :
        create_reservation(u, i, e, c, ok)
        => /\ instances[i].status = AVAILABLE
           /\ nextRes' = nextRes + 1
           /\ reservations[nextRes'] = NoRow
           /\ reservations'[nextRes'].status = PENDING
           /\ reservations'[nextRes'].book_instance_id = i
           /\ reservations'[nextRes'].user_id = u
           /\ \A q \in ResIds \ {nextRes'} : reservations'[q] = reservations[q]
           /\ instances' = [instances EXCEPT ![i].status = RESERVED]

C10_Reserve == C10_State /\ [][C10_State' /\ C10_Step]_vars

\* C10 witness: an instance reserved once, on which a second Reserve is refused.
C10_Witness ==
    \E i \in InstIds :
        /\ instances[i].status = RESERVED
        /\ Cardinality(PendingReservationsOn(i)) = 1
        /\ create_reservation_response(i) =
               HTTPException(400, "Book instance not available")

\* C11: Return, with or without a destination shelf, on an instance with no
\* BORROW transaction in status PENDING is answered 400 "Book was not borrowed"
\* (the InvalidState kind) whatever the status of the instance, and neither
\* handler takes a step on it.
C11_State ==
    \A i \in InstIds :
        PendingBorrows(i) = {} =>
            return_response(TagOf(i)) = HTTPException(400, "Book was not borrowed")

C11_Step ==
    \A i \in InstIds :
        PendingBorrows(i) = {} =>
            /\ ~return_book_quick(TagOf(i))
            /\ \A s \in Shelves : ~return_book(TagOf(i), s)

C11_ReturnNotBorrowed == C11_State /\ [][C11_State' /\ C11_Step]_vars

\* C11 witness: Return is refused on an instance AVAILABLE again after a
\* completed return, while the other instance is RESERVED or DAMAGED and
\* refused too.
C11_Witness ==
    \E i \in InstIds, j \in InstIds :
        /\ instances[i].status = AVAILABLE
        /\ Ledger(i) = LedgerReturned
        /\ instances[j].status \in {RESERVED, DAMAGED}
        /\ return_response(TagOf(i)).detail = "Book was not borrowed"
        /\ return_response(TagOf(j)).detail = "Book was not borrowed"

\* C12: Return with a destination shelf sets the instance's shelf_id to that
\* shelf and records it in the RETURN transaction; Return without one leaves
\* the instance's shelf_id as it is and records that shelf; in both the RETURN
\* transaction carries the user of the borrow it completes.
C12_Step ==
    \A i \in InstIds, b \in 1 .. Len(transactions) :
        b \in PendingBorrows(i) =>
            /\ \A s \in Shelves :
                  return_book(TagOf(i), s) =>
                      /\ instances'[i].shelf_id = s
                      /\ transactions'[Len(transactions')].type = RETURN
                      /\ transactions'[Len(transactions')].book_instance_id = i
                      /\ transactions'[Len(transactions')].shelf_id = s
                      /\ transactions'[Len(transactions')].user_id = transactions[b].user_id
                      /\ transactions'[b].status = COMPLETED
            /\ return_book_quick(TagOf(i)) =>
                      /\ instances'[i].shelf_id = instances[i].shelf_id
                      /\ transactions'[Len(transactions')].type = RETURN
                      /\ transactions'[Len(transactions')].book_instance_id = i
                      /\ transactions'[Len(transactions')].shelf_id = instances[i].shelf_id
                      /\ transactions'[Len(transactions')].user_id = transactions[b].user_id
                      /\ transactions'[b].status = COMPLETED

C12_ReturnShelf == [][C12_Step]_vars

\* C12 witness: an instance borrowed from s1 by u2 was returned to s2, and was
\* borrowed again from s2.
C12_Witness ==
    \E i \in InstIds :
        /\ instances[i].shelf_id = "s2"
        /\ Len(transactions) = 3
        /\ transactions[1] = [user_id |-> "u2", shelf_id |-> "s1", book_instance_id |-> i,
                              type |-> BORROW, status |-> COMPLETED, date |-> StartTime]
        /\ transactions[2] = [user_id |-> "u2", shelf_id |-> "s2", book_instance_id |-> i,
                              type |-> RETURN, status |-> COMPLETED, date |-> StartTime]
        /\ transactions[3].type = BORROW
        /\ transactions[3].shelf_id = "s2"

\* C13: the error kinds reach the caller with pairwise distinct response
\* codes.  On the requests of one state: a Borrow refused as InvalidState
\* ("Book is not available") and a Borrow refused as Forbidden ("Book is
\* reserved by another user") carry different codes, and a PickupByCode refused
\* as Expired ("Reservation expired") carries a code different from that of any
\* request refused as InvalidState.
C13_DistinctCodes ==
    \A u \in Users, v \in Users, tag \in Tags, other \in Tags :
        /\ (/\ borrow_response(u, tag).detail = "Book is not available"
            /\ borrow_response(v, other).detail = "Book is reserved by another user")
           => borrow_response(u, tag).rc # borrow_response(v, other).rc
        /\ \A c \in Codes, r \in ResIds :
              pickup_response(c, r).detail = "Reservation expired" =>
                  /\ borrow_response(u, tag).detail = "Book is not available"
                         => pickup_response(c, r).rc # borrow_response(u, tag).rc
                  /\ return_response(tag).detail = "Book was not borrowed"
                         => pickup_response(c, r).rc # return_response(tag).rc
                  /\ \A i \in InstIds :
                         create_reservation_response(i).detail = "Book instance not available"
                         => pickup_response(c, r).rc # create_reservation_response(i).rc

\* C14: no two instances ever carry the same tag: creating an instance with a
\* tag in use, or updating an instance to the tag of another, is answered 400
\* "book code already registered" (the Conflict kind) and changes no table.
C14_State ==
    \A i \in InstIds, j \in InstIds :
        i # j => instances[i].rfid_tag # instances[j].rfid_tag

C14_Step ==
    /\ \A instance_data \in InstanceData :
          (/\ InstanceByTag(instance_data.rfid_tag) # {}
           /\ create_book_instance(instance_data, TRUE, TRUE))
          => /\ reply' = HTTPException(400, "book code already registered")
             /\ UNCHANGED db
    /\ \A i \in InstIds, update_data \in UpdateData :
          (/\ update_data.rfid_tag # Unset
           /\ InstanceByTag(update_data.rfid_tag) \ {i} # {}
           /\ update_book_instance(i, update_data))
          => /\ reply' = HTTPException(400, "book code already registered")
             /\ UNCHANGED db

C14_UniqueTags == C14_State /\ [][C14_State' /\ C14_Step]_vars

\* C15: when generate_and_upload_qr fails, Reserve is still answered with the
\* reservation: the row is committed PENDING with no qr_code_url and its
\* instance is RESERVED.
C15_Step ==
    \A u \in Users, i \in InstIds, e \in Times, c \in Codes :
        create_reservation(u, i, e, c, FALSE)
        => /\ create_reservation_response(i) = Ok(200)
           /\ reservations[nextRes'] = NoRow
           /\ reservations'[nextRes'] =
                  [user_id |-> u, book_instance_id |-> i, exp_date |-> e,
                   status |-> PENDING, pickup_code |-> c, qr_code_url |-> NoUrl]
           /\ instances'[i].status = RESERVED

C15_QrFailureKeepsReservation == [][C15_Step]_vars

\* C15 witness: one reservation made with the image stored and one made with
\* the image step failing, both PENDING on RESERVED instances.
C15_Witness ==
    \E r \in ResIds, q \in ResIds :
        /\ reservations[r] # NoRow /\ reservations[q] # NoRow
        /\ reservations[r].qr_code_url = NoUrl
        /\ reservations[q].qr_code_url = "url"
        /\ reservations[r].status = PENDING
        /\ reservations[q].status = PENDING
        /\ instances[reservations[r].book_instance_id].status = RESERVED
        /\ instances[reservations[q].book_instance_id].status = RESERVED

\* C16: no step removes a transaction or alters anything of one but its
\* status; a COMPLETED transaction keeps its status; and a BORROW transaction
\* goes from PENDING to COMPLETED only in a step of Return (either form) on
\* its instance.
C16_Step ==
    /\ Len(transactions') >= Len(transactions)
    /\ \A t \in 1 .. Len(transactions) :
          /\ transactions'[t] = [transactions[t] EXCEPT !.status = transactions'[t].status]
          /\ transactions[t].status = COMPLETED => transactions'[t].status = COMPLETED
          /\ (/\ transactions[t].type = BORROW
              /\ transactions[t].status = PENDING
              /\ transactions'[t].status # PENDING)
             => /\ transactions'[t].status = COMPLETED
                /\ \/ return_book_quick(TagOf(transactions[t].book_instance_id))
                   \/ \E s \in Shelves :
                          return_book(TagOf(transactions[t].book_instance_id), s)

C16_TransactionsKept == [][C16_Step]_vars

\* C16 witness: a ledger with a completed borrow, its return, and a borrow
\* opened later by a pickup, all still in place.
C16_Witness ==
    /\ Len(transactions) = 3
    /\ transactions[1].type = BORROW /\ transactions[1].status = COMPLETED
    /\ transactions[2].type = RETURN /\ transactions[2].status = COMPLETED
    /\ transactions[3].type = BORROW /\ transactions[3].status = PENDING
    /\ transactions[3].date # StartTime
    /\ \E r \in ResIds : reservations[r] # NoRow /\ reservations[r].status = COMPLETED

\* C17: when an instance carries more than one BORROW transaction in status
\* PENDING (two Borrow requests served side by side both committed), Return
\* does not fail: it is answered with the RETURN transaction.
C17_ReturnWithTwoOpenBorrows ==
    \A i \in InstIds :
        Cardinality(PendingBorrows(i)) > 1 => return_response(TagOf(i)) = Ok(200)

\* C18: once PickupByCode has answered "Reservation expired" for the
\* reservation on instance X, X is RESERVED with no PENDING reservation and
\* stays so: every Borrow of X and every Reserve of X is refused, PickupByCode
\* with the code of the expired reservation is refused whichever row it asks
\* for, and no step, CancelReservation of the expired reservation included,
\* changes the status of X.
Stuck(X) ==
    /\ instances[X].status = RESERVED
    /\ PendingReservationsOn(X) = {}

C18_State ==
    \A X \in InstIds :
        Stuck(X) =>
            /\ \A u \in Users : Raised(borrow_response(u, TagOf(X)))
            /\ Raised(create_reservation_response(X))
            /\ \A r \in ResIds :
                  (/\ reservations[r] # NoRow
                   /\ reservations[r].book_instance_id = X
                   /\ reservations[r].status = EXPIRED)
                  => \A q \in ResIds :
                         Raised(pickup_response(reservations[r].pickup_code, q))

C18_Step ==
    \A X \in InstIds :
        /\ Stuck(X) => Stuck(X)'
        /\ \A c \in Codes, r \in ResIds :
              (/\ r \in PendingByCode(c)
               /\ reservations[r].book_instance_id = X
               /\ reservations[r].exp_date < now
               /\ pickup_row(c, r))
              => Stuck(X)'

C18_StuckReserved == C18_State /\ [][C18_State' /\ C18_Step]_vars

\* the part of C18 that does not involve the pickup code: X stays RESERVED
\* with no PENDING reservation, and Borrow and Reserve of X are refused
C18_StaysStuck ==
    [][\A X \in InstIds :
          /\ Stuck(X) => Stuck(X)'
          /\ Stuck(X)' => /\ \A u \in Users : Raised(borrow_response(u, TagOf(X)))'
                          /\ Raised(create_reservation_response(X))']_vars

====
